---- MODULE Spec2Model ----
(***************************************************************************)
(* CustardKit (python): the action builders and LongpressAction of         *)
(* source/actions.py, the sample document of my_custard.py, and the        *)
(* Interface assembly the sample calls into.                               *)
(*                                                                         *)
(* Three specifications share the variables:                               *)
(*   Spec           LongpressAction objects over a heap of Python lists    *)
(*   SpecBuilders   a caller applying the fourteen action builders         *)
(*   SpecInterface  GridFitLayout / KeyData / Interface / serialization    *)
(***************************************************************************)
EXTENDS Integers, Sequences, FiniteSets, TLC

VARIABLES
    \* --- Python object graph around LongpressAction -----------------------
    heap,          \* list objects: heap[a] is the contents of the list at address a
    objs,          \* LongpressAction instances: objs[o] = [start |-> a, repeat |-> a]
    given,         \* per instance, the arguments its constructor call was given
    lastJson,      \* the most recent json() call: instance, returned lists, their contents
    jsonRun,       \* how many json() calls on lastJson.obj were just made in a row (0, 1, 2 = 2 or more)
    ops,           \* operations the caller has performed on lists and instances
    \* --- a caller applying the action builders ----------------------------
    call,          \* the builder call just made: [fn |-> name, args |-> tuple]
    ret,           \* its outcome: [outcome |-> "return", value |-> record]
    press_actions, \* the list the caller collects the built actions in
    \* --- Interface assembly -------------------------------------------------
    pc,            \* position of the assembling script
    key_layout,    \* [row_count |-> R, column_count |-> C] once GridFitLayout(...) returned
    keys,          \* the KeyData list: a sequence of GridFitSpecifier [x |-> , y |-> ]
    err            \* the error that aborted assembly, "" if none

lpVars == <<heap, objs, given, lastJson, jsonRun, ops>>
buVars == <<call, ret, press_actions>>
ifVars == <<pc, key_layout, keys, err>>
vars == <<heap, objs, given, lastJson, jsonRun, ops, call, ret, press_actions,
          pc, key_layout, keys, err>>

(***************************************************************************)
(* Bounds of the model.                                                    *)
(***************************************************************************)
MaxLen == 2       \* longest Python list of actions
MaxLists == 2     \* lists the caller creates itself
MaxObjs == 2      \* LongpressAction instances constructed
MaxOps == 4       \* operations of the caller on lists and instances
MaxCount == 1     \* |count| of delete / move_cursor
MaxTargets == 1   \* longest targets list
MaxPress == 2     \* longest press_actions list
MaxDim == 2       \* largest row_count / column_count
MaxCoord == 1     \* largest specifier coordinate (smallest is -1)
MaxExtra == 2     \* KeyData the script adds to its starting list

(***************************************************************************)
(* source/actions.py: the action builders.  Each returns a dict; none      *)
(* inspects its arguments.                                                 *)
(***************************************************************************)
action_input(text) ==
    [type |-> "input", text |-> text]

action_replace_last_characters(table) ==
    [type |-> "replace_last_characters", table |-> table]

action_replace_default ==
    [type |-> "replace_default"]

action_move_tab(tab_type, text) ==
    [type |-> "move_tab", tab_type |-> tab_type, identifier |-> text]

action_move_cursor(count) ==
    [type |-> "move_cursor", count |-> count]

action_smart_move_cursor(direction, targets) ==
    [type |-> "smart_move_cursor", direction |-> direction, targets |-> targets]

action_delete(count) ==
    [type |-> "delete", count |-> count]

action_smart_delete_SharedType(direction, targets) ==
    [type |-> "delete", direction |-> direction, targets |-> targets]

action_smart_delete(direction, targets) ==
    [type |-> "smart_delete", direction |-> direction, targets |-> targets]

action_smart_delete_default ==
    [type |-> "smart_delete_default"]

action_enable_resizing_mode ==
    [type |-> "enable_resizing_mode"]

action_toggle_cursor_bar ==
    [type |-> "toggle_cursor_bar"]

action_toggle_tab_bar ==
    [type |-> "toggle_tab_bar"]

action_toggle_caps_lock_state ==
    [type |-> "toggle_caps_lock_state"]

action_dismiss_keyboard ==
    [type |-> "dismiss_keyboard"]

(***************************************************************************)
(* Argument values the caller draws from (the annotated types: str, int,   *)
(* list[str], dict[str, str]).                                             *)
(***************************************************************************)
Texts == {"", "a", "ab"}
Counts == (0 - MaxCount)..MaxCount
Directions == {"forward", "backward", "up"}
TabTypes == {"custom", "system", "user"}
StopStrings == {"a", "bc"}
TargetLists == UNION {[1..n -> StopStrings] : n \in 0..MaxTargets}
Tables == UNION {[D -> {"x"}] : D \in SUBSET {"a", "b"}}

\* A call that returned value v (a call that raised would be "raise").
Returned(v) == [outcome |-> "return", value |-> v]

\* The caller calls builder fn with args, gets r, and appends it to press_actions.
Built(fn, args, r) ==
    /\ Len(press_actions) < MaxPress
    /\ call' = [fn |-> fn, args |-> args]
    /\ ret' = Returned(r)
    /\ press_actions' = Append(press_actions, r)
    /\ UNCHANGED <<lpVars, ifVars>>

Call_action_input ==
    \E text \in Texts : Built("action_input", <<text>>, action_input(text))

Call_action_replace_last_characters ==
    \E table \in Tables :
        Built("action_replace_last_characters", <<table>>,
              action_replace_last_characters(table))

Call_action_replace_default ==
    Built("action_replace_default", <<>>, action_replace_default)

Call_action_move_tab ==
    \E tab_type \in TabTypes, text \in Texts :
        Built("action_move_tab", <<tab_type, text>>, action_move_tab(tab_type, text))

Call_action_move_cursor ==
    \E count \in Counts :
        Built("action_move_cursor", <<count>>, action_move_cursor(count))

Call_action_smart_move_cursor ==
    \E direction \in Directions, targets \in TargetLists :
        Built("action_smart_move_cursor", <<direction, targets>>,
              action_smart_move_cursor(direction, targets))

Call_action_delete ==
    \E count \in Counts : Built("action_delete", <<count>>, action_delete(count))

Call_action_smart_delete ==
    \E direction \in Directions, targets \in TargetLists :
        Built("action_smart_delete", <<direction, targets>>,
              action_smart_delete(direction, targets))

Call_action_smart_delete_default ==
    Built("action_smart_delete_default", <<>>, action_smart_delete_default)

Call_action_enable_resizing_mode ==
    Built("action_enable_resizing_mode", <<>>, action_enable_resizing_mode)

Call_action_toggle_cursor_bar ==
    Built("action_toggle_cursor_bar", <<>>, action_toggle_cursor_bar)

Call_action_toggle_tab_bar ==
    Built("action_toggle_tab_bar", <<>>, action_toggle_tab_bar)

Call_action_toggle_caps_lock_state ==
    Built("action_toggle_caps_lock_state", <<>>, action_toggle_caps_lock_state)

Call_action_dismiss_keyboard ==
    Built("action_dismiss_keyboard", <<>>, action_dismiss_keyboard)

(***************************************************************************)
(* source/actions.py: class LongpressAction, over a heap of list objects.  *)
(* A Python list is an object: a variable, a field or a dict entry holds   *)
(* its address, and every holder of the address sees every mutation.       *)
(***************************************************************************)
NoArg == 0           \* the caller passed nothing for the parameter
DefaultStart == 1    \* the list `start=[]` evaluated once, when the def statement ran
DefaultRepeat == 2   \* the list `repeat=[]` evaluated once, when the def statement ran

\* The elements the sample document puts in its lists.
Acts == {action_delete(1), action_input("a")}
ListVals == UNION {[1..n -> Acts] : n \in 0..MaxLen}
Fields == {"start", "repeat"}

\* Lists the caller created itself (the default lists sit below them).
CallerLists == (DefaultRepeat + 1)..Len(heap)

\* Python's binding of a parameter that has a default value.
BindDefault(arg, default) == IF arg = NoArg THEN default ELSE arg

LongpressAction_init_Swapped(start, repeat) ==
    [start |-> repeat, repeat |-> start]

\* __init__: self.start = start; self.repeat = repeat (addresses, no copy).
LongpressAction_init(start, repeat) ==
    [start |-> start, repeat |-> repeat]

\* json(): a new dict holding the two lists themselves (addresses, no copy).
LongpressAction_json(self) ==
    [start |-> self.start, repeat |-> self.repeat]

\* What a dict of list addresses shows when read now.
Deref(d) == [k \in DOMAIN d |-> heap[d[k]]]

\* list.append(x) and list.pop() on the list at address a.
ListAppend(a, x) == [heap EXCEPT ![a] = Append(@, x)]
ListPop(a) == [heap EXCEPT ![a] = SubSeq(@, 1, Len(@) - 1)]

\* One more operation of the caller.
Step ==
    /\ ops < MaxOps
    /\ ops' = ops + 1

\* The caller evaluates a list display such as [DeleteAction(1)].
NewList ==
    \E s \in ListVals :
        /\ Step
        /\ Len(heap) < DefaultRepeat + MaxLists
        /\ heap' = Append(heap, s)
        /\ jsonRun' = 0
        /\ UNCHANGED <<objs, given, lastJson, buVars, ifVars>>

\* LongpressAction(...), each argument either omitted or a list of the caller's.
Construct ==
    \E s \in {NoArg} \cup CallerLists, r \in {NoArg} \cup CallerLists :
        /\ Step
        /\ Len(objs) < MaxObjs
        /\ objs' = Append(objs, LongpressAction_init(BindDefault(s, DefaultStart),
                                                     BindDefault(r, DefaultRepeat)))
        /\ given' = Append(given, [start |-> s, repeat |-> r])
        /\ jsonRun' = 0
        /\ UNCHANGED <<heap, lastJson, buVars, ifVars>>

JsonCall(o, h) ==
    /\ Step
    /\ lastJson' = [obj |-> o,
                    ref |-> LongpressAction_json(objs[o]),
                    val |-> Deref(LongpressAction_json(objs[o]))]
    /\ jsonRun' = IF jsonRun >= 1 /\ lastJson.obj = o THEN 2 ELSE 1
    /\ heap' = h
    /\ UNCHANGED <<objs, given, buVars, ifVars>>

Json_Draining(o) ==
    JsonCall(o, [heap EXCEPT ![objs[o].start] = <<>>])

\* o.json(): reads the two fields, writes nothing.
Json(o) ==
    JsonCall(o, heap)

Mutated(h) ==
    /\ Step
    /\ heap' = h
    /\ jsonRun' = 0
    /\ UNCHANGED <<objs, given, lastJson, buVars, ifVars>>

\* The caller appends to / pops from a list it created (and may have passed).
CallerAppends ==
    \E l \in CallerLists, x \in Acts :
        Len(heap[l]) < MaxLen /\ Mutated(ListAppend(l, x))

CallerPops ==
    \E l \in CallerLists :
        Len(heap[l]) > 0 /\ Mutated(ListPop(l))

\* o.start.append(x), o.repeat.pop(): the fields are public attributes.
FieldAppends ==
    \E o \in 1..Len(objs), f \in Fields, x \in Acts :
        Len(heap[objs[o][f]]) < MaxLen /\ Mutated(ListAppend(objs[o][f], x))

FieldPops ==
    \E o \in 1..Len(objs), f \in Fields :
        Len(heap[objs[o][f]]) > 0 /\ Mutated(ListPop(objs[o][f]))

\* r = o.json(); r["start"].append(x): mutation through an earlier json() result.
ResultAppends ==
    \E f \in Fields, x \in Acts :
        /\ lastJson.obj # NoArg
        /\ Len(heap[lastJson.ref[f]]) < MaxLen
        /\ Mutated(ListAppend(lastJson.ref[f], x))

ResultPops ==
    \E f \in Fields :
        /\ lastJson.obj # NoArg
        /\ Len(heap[lastJson.ref[f]]) > 0
        /\ Mutated(ListPop(lastJson.ref[f]))

(***************************************************************************)
(* Initial states.                                                         *)
(***************************************************************************)
NoJson == [obj |-> 0, ref |-> [start |-> 0, repeat |-> 0],
           val |-> [start |-> <<>>, repeat |-> <<>>]]

\* Module actions.py imported: the two default lists exist, nothing else.
LpInit ==
    /\ heap = <<<<>>, <<>>>>
    /\ objs = <<>>
    /\ given = <<>>
    /\ lastJson = NoJson
    /\ jsonRun = 0
    /\ ops = 0

BuInit ==
    /\ call = [fn |-> "", args |-> <<>>]
    /\ ret = [outcome |-> "", value |-> <<>>]
    /\ press_actions = <<>>

IfIdle ==
    /\ pc = "idle"
    /\ key_layout = [row_count |-> 0, column_count |-> 0]
    /\ keys = <<>>
    /\ err = ""

Init == LpInit /\ BuInit /\ IfIdle

Next ==
    \/ NewList
    \/ Construct
    \/ \E o \in 1..Len(objs) : Json(o)
    \/ CallerAppends
    \/ CallerPops
    \/ FieldAppends
    \/ FieldPops
    \/ ResultAppends
    \/ ResultPops

Spec == Init /\ [][Next]_vars

NextBuilders ==
    \/ Call_action_input
    \/ Call_action_replace_last_characters
    \/ Call_action_replace_default
    \/ Call_action_move_tab
    \/ Call_action_move_cursor
    \/ Call_action_smart_move_cursor
    \/ Call_action_delete
    \/ Call_action_smart_delete
    \/ Call_action_smart_delete_default
    \/ Call_action_enable_resizing_mode
    \/ Call_action_toggle_cursor_bar
    \/ Call_action_toggle_tab_bar
    \/ Call_action_toggle_caps_lock_state
    \/ Call_action_dismiss_keyboard

SpecBuilders == Init /\ [][NextBuilders]_vars

(***************************************************************************)
(* my_custard.py and the assembly it calls into (source.custard):          *)
(* GridFitLayout(...), the KeyData list, Interface(...), Custard(...),     *)
(* custard.write(...).  Python evaluates the call's arguments first, so    *)
(* the layout and the keys exist before Interface(...) runs.               *)
(***************************************************************************)
Specifier(x, y) == [x |-> x, y |-> y]

\* The sample's layout and its four KeyData, in list order.
SampleLayout == [row_count |-> 2, column_count |-> 2]
SampleKeys == <<Specifier(0, 0), Specifier(0, 1), Specifier(1, 0), Specifier(1, 1)>>

Coords == (0 - 1)..MaxCoord
Specifiers == {Specifier(x, y) : x \in Coords, y \in Coords}
ExtraKeys == UNION {[1..n -> Specifiers] : n \in 0..MaxExtra}
\* Key lists a script writes: nothing or the sample's keys, then further KeyData.
KeyLists == {base \o extra : base \in {<<>>, SampleKeys}, extra \in ExtraKeys}

\* GridFitLayout: both counts must be at least 1.
GridFitLayout_error(row_count, column_count) ==
    IF row_count < 1 \/ column_count < 1 THEN "InvalidLayoutDimensions" ELSE ""

InBounds_SwappedAxes(layout, s) ==
    /\ 0 <= s.x /\ s.x < layout.row_count
    /\ 0 <= s.y /\ s.y < layout.column_count

\* A specifier against a grid: 0 <= x < column_count and 0 <= y < row_count.
InBounds(layout, s) ==
    /\ 0 <= s.x /\ s.x < layout.column_count
    /\ 0 <= s.y /\ s.y < layout.row_count

HasCollision_AdjacentOnly(ks) ==
    \E i \in 1..Len(ks) - 1 : ks[i] = ks[i + 1]

\* Two KeyData with an identical specifier.
HasCollision(ks) ==
    \E i \in 1..Len(ks), j \in 1..Len(ks) : i < j /\ ks[i] = ks[j]

\* Interface(...): each KeyData's specifier against the layout, then collisions.
Interface_error(layout, ks) ==
    IF \E i \in 1..Len(ks) : ~InBounds(layout, ks[i])
    THEN "KeySpecifierOutOfBounds"
    ELSE IF HasCollision(ks) THEN "DuplicateKeySpecifier" ELSE ""

\* An action of the script that may raise: on an error assembly is aborted.
Raises(e, next) ==
    /\ err' = e
    /\ pc' = IF e = "" THEN next ELSE "failed"

MakeLayout ==
    \E r \in 0..MaxDim, c \in 0..MaxDim :
        /\ pc = "start"
        /\ Raises(GridFitLayout_error(r, c), "layout")
        /\ key_layout' = IF GridFitLayout_error(r, c) = ""
                         THEN [row_count |-> r, column_count |-> c]
                         ELSE key_layout
        /\ UNCHANGED <<keys, lpVars, buVars>>

\* The keys=[KeyData(specifier=GridFitSpecifier(x, y), ...), ...] display: no check here.
MakeKeys ==
    \E ks \in KeyLists :
        /\ pc = "layout"
        /\ keys' = ks
        /\ pc' = "keys"
        /\ UNCHANGED <<key_layout, err, lpVars, buVars>>

MakeInterface ==
    /\ pc = "keys"
    /\ Raises(Interface_error(key_layout, keys), "interface")
    /\ UNCHANGED <<key_layout, keys, lpVars, buVars>>

\* Custard(identifier, ...): the identifier must be non-empty.
Custard_error(identifier) ==
    IF identifier = "" THEN "InvalidIdentifier" ELSE ""

MakeCustard ==
    \E identifier \in {"", "my_custard"} :
        /\ pc = "interface"
        /\ Raises(Custard_error(identifier), "custard")
        /\ UNCHANGED <<key_layout, keys, lpVars, buVars>>

\* custard.write(...): the document is serialized.
Write ==
    /\ pc = "custard"
    /\ pc' = "written"
    /\ UNCHANGED <<key_layout, keys, err, lpVars, buVars>>

IfInit ==
    /\ pc = "start"
    /\ key_layout = [row_count |-> 0, column_count |-> 0]
    /\ keys = <<>>
    /\ err = ""

InitInterface == LpInit /\ BuInit /\ IfInit

NextInterface ==
    \/ MakeLayout
    \/ MakeKeys
    \/ MakeInterface
    \/ MakeCustard
    \/ Write

SpecInterface == InitInterface /\ [][NextInterface]_vars

(***************************************************************************)
(* Properties.                                                             *)
(***************************************************************************)

\* What `given` records for LongpressAction().
NoArgs == [start |-> NoArg, repeat |-> NoArg]

\* C1: a LongpressAction constructed with no arguments has an empty start and
\* an empty repeat sequence, whatever was done to earlier instances.
C1_DefaultConstructionEmpty ==
    [][(Len(objs') = Len(objs) + 1 /\ given'[Len(objs')] = NoArgs)
        => /\ heap'[objs'[Len(objs')].start] = <<>>
           /\ heap'[objs'[Len(objs')].repeat] = <<>>]_vars

\* The kind names of the action records, and the kind each builder is named for.
Kinds ==
    {"input", "replace_last_characters", "replace_default", "move_tab",
     "move_cursor", "smart_move_cursor", "delete", "smart_delete",
     "smart_delete_default", "enable_resizing_mode", "toggle_cursor_bar",
     "toggle_tab_bar", "toggle_caps_lock_state", "dismiss_keyboard"}

KindOf ==
    [action_input |-> "input",
     action_replace_last_characters |-> "replace_last_characters",
     action_replace_default |-> "replace_default",
     action_move_tab |-> "move_tab",
     action_move_cursor |-> "move_cursor",
     action_smart_move_cursor |-> "smart_move_cursor",
     action_delete |-> "delete",
     action_smart_delete |-> "smart_delete",
     action_smart_delete_default |-> "smart_delete_default",
     action_enable_resizing_mode |-> "enable_resizing_mode",
     action_toggle_cursor_bar |-> "toggle_cursor_bar",
     action_toggle_tab_bar |-> "toggle_tab_bar",
     action_toggle_caps_lock_state |-> "toggle_caps_lock_state",
     action_dismiss_keyboard |-> "dismiss_keyboard"]

\* C2: every builder call returns a record with a "type" field equal to the
\* builder's kind name; the fourteen builders have fourteen different kinds,
\* which are exactly the kind names; every record collected carries one of them.
C2_TypeDiscriminator ==
    /\ Cardinality(DOMAIN KindOf) = 14
    /\ {KindOf[f] : f \in DOMAIN KindOf} = Kinds
    /\ \A f \in DOMAIN KindOf, g \in DOMAIN KindOf : KindOf[f] = KindOf[g] => f = g
    /\ ret.outcome # "" =>
          /\ call.fn \in DOMAIN KindOf
          /\ ret.outcome = "return"
          /\ "type" \in DOMAIN ret.value
          /\ ret.value.type = KindOf[call.fn]
    /\ \A i \in 1..Len(press_actions) :
          /\ "type" \in DOMAIN press_actions[i]
          /\ press_actions[i].type \in Kinds

\* C2 witness: delete and smart_delete were both built, with different types.
C2_Witness ==
    /\ call.fn = "action_smart_delete"
    /\ ret.outcome = "return"
    /\ Len(press_actions) = 2
    /\ press_actions[1] = action_delete(1)
    /\ press_actions[2].type = "smart_delete"

\* C3: action_input with an empty text fails with InvalidActionArguments and
\* returns no record.
C3_EmptyInputRejected ==
    (call.fn = "action_input" /\ call.args[1] = "")
        => (ret.outcome = "raise" /\ ret.error = "InvalidActionArguments")

\* C4: action_smart_move_cursor / action_smart_delete return a record if and
\* only if direction is forward or backward and targets is non-empty.
C4_SmartArgumentsValidated ==
    call.fn \in {"action_smart_move_cursor", "action_smart_delete"}
        => (ret.outcome = "return"
               <=> (call.args[1] \in {"forward", "backward"} /\ call.args[2] # <<>>))

\* C5: action_move_tab returns a record if and only if tab_type is custom or
\* system and the identifier is non-empty; the record carries both as given.
C5_MoveTabValidated ==
    call.fn = "action_move_tab"
        => /\ ret.outcome = "return"
                <=> (call.args[1] \in {"custom", "system"} /\ call.args[2] # "")
           /\ ret.outcome = "return"
                => /\ ret.value.tab_type = call.args[1]
                   /\ ret.value.identifier = call.args[2]

\* C6: once constructed a LongpressAction is immutable: every later json()
\* call on it returns the same value as the earlier one, whatever the caller
\* did in between.
C6_JsonNeverChanges ==
    [][(lastJson.obj # NoArg /\ lastJson'.obj = lastJson.obj)
        => lastJson'.val = lastJson.val]_vars

\* C7: json() leaves the lists and the instances' fields unchanged, and a
\* json() call that directly follows a json() call on the same instance
\* returns the same lists with the same contents.
C7_JsonIdempotent ==
    [][/\ jsonRun' >= 1 => (heap' = heap /\ objs' = objs)
       /\ jsonRun' = 2 => (lastJson'.ref = lastJson.ref /\ lastJson'.val = lastJson.val)]_vars

\* C7 witness: json() was called twice in a row on an instance with a non-empty list.
C7_Witness ==
    /\ jsonRun = 2
    /\ lastJson.val.start # <<>>

\* An instance constructed with both arguments given.
Explicit(o) == given[o].start # NoArg /\ given[o].repeat # NoArg

Rejected(e) == pc = "failed" /\ err = e
Accepted == pc \in {"interface", "custard", "written"} \/ Rejected("InvalidIdentifier")
Attempted ==
    \/ Accepted
    \/ Rejected("KeySpecifierOutOfBounds")
    \/ Rejected("DuplicateKeySpecifier")

AllInGrid ==
    \A i \in 1..Len(keys) :
        /\ 0 <= keys[i].x /\ keys[i].x < key_layout.column_count
        /\ 0 <= keys[i].y /\ keys[i].y < key_layout.row_count

SomeCollision ==
    \E i \in 1..Len(keys), j \in 1..Len(keys) : i # j /\ keys[i] = keys[j]

\* C8: under GridFitLayout(R, C), Interface construction fails with
\* KeySpecifierOutOfBounds exactly when some KeyData has a specifier outside
\* 0 <= x < C, 0 <= y < R; an accepted Interface holds only in-grid
\* specifiers, and KeyData in distinct cells are accepted exactly when all
\* are in the grid.
C8_SpecifierBounds ==
    Attempted =>
        /\ Rejected("KeySpecifierOutOfBounds") <=> ~AllInGrid
        /\ Accepted => AllInGrid
        /\ ~SomeCollision => (Accepted <=> AllInGrid)

\* C8 witness: a key in column C (one past the last) of a grid with more rows
\* than columns was rejected.
C8_Witness ==
    /\ Rejected("KeySpecifierOutOfBounds")
    /\ key_layout.column_count < key_layout.row_count
    /\ Len(keys) = 1
    /\ keys[1].x = key_layout.column_count
    /\ keys[1].y = 0

====
